---- MODULE Spec2Model ----
(***************************************************************************)
(* Polynomials in R_q[x] = (ZZ_q1 x ... x ZZ_qn)[x]/(x^N + 1) of fhe.rs:   *)
(* the representation state machine of Poly, its Shoup buffer, its         *)
(* arithmetic operators and the release of its buffers                     *)
(* (crates/math/src/rq/mod.rs).                                            *)
(*                                                                         *)
(* A polynomial is a record with the fields of struct Poly.  A residue     *)
(* array is a sequence of rows (one per modulus), each a sequence of       *)
(* Degree residues.  The per-modulus arithmetic (zq::Modulus), the         *)
(* transform (zq::ntt::NttOperator) and the RNS projection                 *)
(* (rns::RnsContext) are collaborators whose code is not part of the       *)
(* files modelled here; they are written out from their contracts.         *)
(***************************************************************************)
EXTENDS Integers, Sequences, FiniteSets, TLC

(***************************************************************************)
(* Bounds of the model.                                                    *)
(***************************************************************************)
\* Number of operations applied after construction.
MaxSteps == 1
\* Width of a machine word in bits (64 in the program), reduced so that the
\* double-width products of the Shoup multiplication fit TLC's
\* integers.  Every modulus stays below 2^(WordBits - 2), as in the program.
WordBits == 14

(***************************************************************************)
(* Contexts (struct Context, Context::new).                                *)
(***************************************************************************)
\* The ring degree used throughout: the smallest one Context::new accepts.
Degree == 8
\* Primes q = 1 (mod 2 * Degree), the condition under which NttOperator::new
\* succeeds, as the primes of the test module are.
MODULI == <<17, 97>>

Context_new(moduli, degree) == [q |-> moduli, degree |-> degree]

CtxFull == Context_new(MODULI, Degree)
CtxShort == Context_new(SubSeq(MODULI, 1, 1), Degree)

Min2(a, b) == IF a <= b THEN a ELSE b

\* The position of a prime in MODULI: the index of its transform operator.
ModulusIndex(q) == CHOOSE i \in 1..Len(MODULI) : MODULI[i] = q

(***************************************************************************)
(* zq::Modulus: arithmetic modulo one prime.  The constant-time and the    *)
(* variable-time routines compute the same values.                         *)
(***************************************************************************)
Word == 2 ^ WordBits

\* Modulus::add, sub, neg, mul (and their _vt forms), applied to each pair
\* of entries by add_vec, sub_vec, neg_vec, mul_vec.
add_mod(q, a, b) == (a + b) % q
sub_mod(q, a, b) == (a + q - (b % q)) % q
neg_mod(q, a) == (q - (a % q)) % q
mul_mod(q, a, b) == (a * b) % q

\* Modulus::shoup: floor(a * 2^w / q), applied to each entry by shoup_vec.
shoup(q, a) == ((a % Word) * Word) \div q

\* Modulus::mul_shoup (applied to each entry by mul_shoup_vec): a * b mod q computed from b and its Shoup encoding,
\* without a division: one word-sized subtraction and one conditional
\* correction.  The result is a * b mod q only when b_shoup = shoup(q, b).
mul_shoup_mod(q, a, b, b_shoup) ==
    LET hi == ((a % Word) * (b_shoup % Word)) \div Word
        r == (((a % Word) * (b % Word)) - hi * q) % Word
    IN IF r >= q THEN r - q ELSE r

(***************************************************************************)
(* zq::ntt::NttOperator: the negacyclic transform of size Degree modulo q. *)
(***************************************************************************)
\* The powers psi^0 .. psi^(2 * Degree - 1) of a primitive (2 * Degree)-th
\* root of unity psi modulo each prime (psi = 3 modulo 17, psi = 8 modulo 97),
\* and the inverse of Degree modulo each prime: the tables an operator holds.
PsiPow == << <<1, 3, 9, 10, 13, 5, 15, 11, 16, 14, 8, 7, 4, 12, 2, 6>>,
            <<1, 8, 64, 27, 22, 79, 50, 12, 96, 89, 33, 70, 75, 18, 47, 85>> >>
DegreeInv == <<15, 85>>

RECURSIVE SumTo(_, _)
SumTo(f, n) == IF n = 0 THEN 0 ELSE f[n] + SumTo(f, n - 1)

\* NttOperator::forward: the values of the polynomial at the odd powers of psi.
forward(q, v) ==
    LET i == ModulusIndex(q)
    IN [k \in 1..Degree |->
          SumTo([j \in 1..Degree |->
                   ((v[j] % q)
                      * PsiPow[i][1 + (((2 * (k - 1) + 1) * (j - 1)) % (2 * Degree))])],
                Degree) % q]

\* NttOperator::backward: the inverse of forward.
backward(q, v) ==
    LET i == ModulusIndex(q)
    IN [j \in 1..Degree |->
          (DegreeInv[i]
             * (SumTo([k \in 1..Degree |->
                        ((v[k] % q)
                           * PsiPow[i][1 + ((2 * Degree
                                          - (((2 * (k - 1) + 1) * (j - 1)) % (2 * Degree)))
                                       % (2 * Degree))])],
                      Degree) % q)) % q]

(***************************************************************************)
(* struct Poly and enum Representation.                                    *)
(***************************************************************************)
PowerBasis == "PowerBasis"
Ntt == "Ntt"
NttShoup == "NttShoup"
Representation == {PowerBasis, Ntt, NttShoup}

\* Option<T>: None is the empty sequence, Some(x) the sequence holding x.
None == <<>>
Some(x) == <<x>>
Unwrap(o) == o[1]
\* A binding that holds no polynomial.
NoPoly == None
\* No representation, in the record of an operation.
NoRepr == "-"

Zeros(n, d) == [i \in 1..n |-> [j \in 1..d |-> 0]]

\* <[u64] as Zeroize>::zeroize on the slice of an array: every word set to 0.
zeroize_words(a) == [i \in DOMAIN a |-> [j \in DOMAIN a[i] |-> 0]]

IsZero(a) == \A i \in DOMAIN a : \A j \in DOMAIN a[i] : a[i][j] = 0

\* A buffer handed back to the allocator, with the words it holds then.
Buffer(kind, words) == [kind |-> kind, words |-> words]

\* The buffers a polynomial owns.  Poly has no Drop implementation: when a
\* polynomial is destroyed they are released as they are.
Buffers(p) ==
    {Buffer("coefficients", p.coefficients)}
      \cup (IF p.coefficients_shoup = None
            THEN {}
            ELSE {Buffer("coefficients_shoup", Unwrap(p.coefficients_shoup))})

\* Modulus::add_vec, sub_vec, mul_vec, mul_shoup_vec and neg_vec (and their
\* _vt forms) on one row: the element operation at every position.
add_vec(q, a, b) == [j \in 1..Len(a) |-> add_mod(q, a[j], b[j])]
sub_vec(q, a, b) == [j \in 1..Len(a) |-> sub_mod(q, a[j], b[j])]
mul_vec(q, a, b) == [j \in 1..Len(a) |-> mul_mod(q, a[j], b[j])]
mul_shoup_vec(q, a, b, b_shoup) ==
    [j \in 1..Len(a) |-> mul_shoup_mod(q, a[j], b[j], b_shoup[j])]
neg_vec(q, a) == [j \in 1..Len(a) |-> neg_mod(q, a[j])]

\* izip!(a.outer_iter_mut(), b.outer_iter(), &ctx.q).for_each(...): the rows
\* the iteration visits are the leading rows all iterators have; the others
\* are left as they are.
add_rows(a, b, q) ==
    [i \in 1..Len(a) |->
        IF i <= Min2(Len(b), Len(q)) THEN add_vec(q[i], a[i], b[i]) ELSE a[i]]

sub_rows(a, b, q) ==
    [i \in 1..Len(a) |->
        IF i <= Min2(Len(b), Len(q)) THEN sub_vec(q[i], a[i], b[i]) ELSE a[i]]

mul_rows(a, b, q) ==
    [i \in 1..Len(a) |->
        IF i <= Min2(Len(b), Len(q)) THEN mul_vec(q[i], a[i], b[i]) ELSE a[i]]

\* izip!(a.outer_iter_mut(), b.outer_iter(), b_shoup.outer_iter(), &ctx.q).
mul_shoup_rows(a, b, b_shoup, q) ==
    [i \in 1..Len(a) |->
        IF i <= Min2(Min2(Len(b), Len(b_shoup)), Len(q))
        THEN mul_shoup_vec(q[i], a[i], b[i], b_shoup[i])
        ELSE a[i]]

\* izip!(out.coefficients.outer_iter_mut(), &out.ctx.q).
neg_rows(a, q) ==
    [i \in 1..Len(a) |-> IF i <= Len(q) THEN neg_vec(q[i], a[i]) ELSE a[i]]

\* A forward transform that reaches the row of the first modulus only.
forward_first_row(a, q) ==
    [i \in 1..Len(a) |->
        IF i <= Min2(1, Len(q)) THEN forward(q[i], a[i]) ELSE a[i]]

\* izip!(self.coefficients.outer_iter_mut(), &self.ctx.ops) with op.forward.
forward_rows(a, q) ==
    [i \in 1..Len(a) |-> IF i <= Len(q) THEN forward(q[i], a[i]) ELSE a[i]]

\* izip!(self.coefficients.outer_iter_mut(), &self.ctx.ops) with op.backward.
backward_rows(a, q) ==
    [i \in 1..Len(a) |-> IF i <= Len(q) THEN backward(q[i], a[i]) ELSE a[i]]

\* What an operation leaves behind: the polynomial it was applied to, the
\* polynomial it returns (NoPoly when it returns none), whether it panicked,
\* the Modulus routine it ran and the buffers it released.
Done(self, out, routine, freed) ==
    [self |-> self, out |-> out, panic |-> FALSE, routine |-> routine,
     freed |-> freed]
Panic(self, freed) ==
    [self |-> self, out |-> NoPoly, panic |-> TRUE, routine |-> "none",
     freed |-> freed]

\* Poly::zero
zero(ctx, representation) ==
    [ctx |-> ctx,
     representation |-> representation,
     allow_variable_time_computations |-> FALSE,
     coefficients |-> Zeros(Len(ctx.q), ctx.degree),
     coefficients_shoup |->
        IF representation = NttShoup
        THEN Some(Zeros(Len(ctx.q), ctx.degree))
        ELSE None]

\* Poly::compute_coefficients_shoup: a new array takes the place of the old
\* buffer, which (when there is one) is released as it is.
compute_coefficients_shoup(self) ==
    [self EXCEPT !.coefficients_shoup =
        Some([i \in 1..Len(self.ctx.q) |->
                [j \in 1..self.ctx.degree |->
                    shoup(self.ctx.q[i], self.coefficients[i][j])]])]

replaced_shoup(self) ==
    IF self.coefficients_shoup = None
    THEN {}
    ELSE {Buffer("coefficients_shoup", Unwrap(self.coefficients_shoup))}

\* A change of representation that knows no way out of NttShoup.
change_representation_no_demotion(self, to) ==
    IF self.representation = to
    THEN Done(self, NoPoly, "none", {})
    ELSE IF self.representation = PowerBasis /\ to = Ntt
    THEN Done([self EXCEPT
                 !.coefficients = forward_rows(@, self.ctx.q),
                 !.representation = to],
              NoPoly, "none", {})
    ELSE IF self.representation = Ntt /\ to = PowerBasis
    THEN Done([self EXCEPT
                 !.coefficients = backward_rows(@, self.ctx.q),
                 !.representation = to],
              NoPoly, "none", {})
    ELSE IF self.representation = PowerBasis /\ to = NttShoup
    THEN LET p == [self EXCEPT
                     !.coefficients = forward_rows(@, self.ctx.q)]
         IN Done([compute_coefficients_shoup(p) EXCEPT !.representation = to],
                 NoPoly, "none", replaced_shoup(p))
    ELSE IF self.representation = Ntt /\ to = NttShoup
    THEN Done([compute_coefficients_shoup(self) EXCEPT !.representation = to],
              NoPoly, "none", replaced_shoup(self))
    ELSE Panic(self, {})

\* Poly::change_representation
change_representation(self, to) ==
    IF self.representation = to
    THEN Done(self, NoPoly, "none", {})
    ELSE IF self.representation = PowerBasis /\ to = Ntt
    THEN Done([self EXCEPT
                 !.coefficients = forward_rows(@, self.ctx.q),
                 !.representation = to],
              NoPoly, "none", {})
    ELSE IF self.representation = Ntt /\ to = PowerBasis
    THEN Done([self EXCEPT
                 !.coefficients = backward_rows(@, self.ctx.q),
                 !.representation = to],
              NoPoly, "none", {})
    ELSE IF self.representation = PowerBasis /\ to = NttShoup
    THEN LET p == [self EXCEPT
                     !.coefficients = forward_rows(@, self.ctx.q)]
         IN Done([compute_coefficients_shoup(p) EXCEPT !.representation = to],
                 NoPoly, "none", replaced_shoup(p))
    ELSE IF self.representation = Ntt /\ to = NttShoup
    THEN Done([compute_coefficients_shoup(self) EXCEPT !.representation = to],
              NoPoly, "none", replaced_shoup(self))
    ELSE IF self.representation = NttShoup /\ to = Ntt
    THEN IF self.coefficients_shoup = None
         THEN Panic(self, {})
         ELSE Done([self EXCEPT !.coefficients_shoup = None,
                                !.representation = to],
                   NoPoly, "none",
                   {Buffer("coefficients_shoup",
                           zeroize_words(Unwrap(self.coefficients_shoup)))})
    ELSE IF self.representation = NttShoup /\ to = PowerBasis
    THEN IF self.coefficients_shoup = None
         THEN Panic([self EXCEPT
                       !.coefficients = backward_rows(@, self.ctx.q)],
                    {})
         ELSE Done([self EXCEPT
                      !.coefficients = backward_rows(@, self.ctx.q),
                      !.coefficients_shoup = None,
                      !.representation = to],
                   NoPoly, "none",
                   {Buffer("coefficients_shoup",
                           zeroize_words(Unwrap(self.coefficients_shoup)))})
    ELSE Panic(self, {})

\* Poly::override_representation
override_representation(self, to) ==
    IF to = NttShoup
    THEN Done([compute_coefficients_shoup(self) EXCEPT !.representation = to],
              NoPoly, "none", replaced_shoup(self))
    ELSE Done([self EXCEPT !.representation = to], NoPoly, "none", {})

\* Poly::random: the residues are whatever the sampler of each modulus
\* draws, here the rows of a given array of residues.
random(ctx, representation, drawn) ==
    LET p == [zero(ctx, representation) EXCEPT
                !.coefficients =
                   [i \in 1..Len(ctx.q) |->
                       [j \in 1..ctx.degree |-> drawn[i][j]]]]
    IN IF p.representation = NttShoup
       THEN compute_coefficients_shoup(p)
       ELSE p

\* impl Zeroize for Poly
zeroize(self) ==
    [self EXCEPT
       !.coefficients = zeroize_words(@),
       !.coefficients_shoup =
          IF @ = None THEN None ELSE Some(zeroize_words(Unwrap(@)))]

\* Result<T, E>: Ok(value) or Err(error).
Ok(p) == [ok |-> TRUE, value |-> p]
Err(msg) == [ok |-> FALSE, err |-> msg]

\* RnsContext::project: the residues of an integer modulo each prime.
project(ctx, v) == [i \in 1..Len(ctx.q) |-> v % ctx.q[i]]

\* impl TryConvertFrom<&[BigUint]> for Poly; representation is an
\* Option<Representation>.
try_convert_from_biguint(v, ctx, representation) ==
    IF Len(v) > ctx.degree
    THEN Err("The slice contains too many big integers compared to the polynomial degree")
    ELSE IF representation # None
    THEN LET p == [ctx |-> ctx,
                   representation |-> Unwrap(representation),
                   allow_variable_time_computations |-> FALSE,
                   coefficients |->
                      [i \in 1..Len(ctx.q) |->
                          [j \in 1..ctx.degree |->
                              IF j <= Len(v) THEN project(ctx, v[j])[i] ELSE 0]],
                   coefficients_shoup |-> None]
         IN IF p.representation = NttShoup
            THEN Ok(compute_coefficients_shoup(p))
            ELSE Ok(p)
    ELSE Err("When converting from a vector, the representation needs to be specified")

\* A branch condition that reads the flag of self alone.
self_variable_time(self, p) ==
    self.allow_variable_time_computations

\* The condition on which a binary operator takes its variable-time branch.
either_variable_time(self, p) ==
    self.allow_variable_time_computations \/ p.allow_variable_time_computations

\* The assertions that open add_assign; debug_assertions tells whether the
\* build keeps debug_assert_eq!.
add_assign_asserts(self, p, debug_assertions) ==
    /\ self.representation # NttShoup
    /\ self.representation = p.representation
    /\ debug_assertions => self.ctx = p.ctx

\* impl AddAssign<&Poly> for Poly
add_assign(self, p, debug_assertions) ==
    IF ~add_assign_asserts(self, p, debug_assertions)
    THEN Panic(self, {})
    ELSE Done([self EXCEPT
                 !.coefficients = add_rows(@, p.coefficients, self.ctx.q)],
              NoPoly,
              IF either_variable_time(self, p)
              THEN "add_vec_vt" ELSE "add_vec",
              {})

\* An operator that clones, applies the in-place form to the clone and
\* returns it: when the in-place form panics the clone is destroyed.
Returned(self, r) ==
    IF r.panic
    THEN Panic(self, r.freed \cup Buffers(r.self))
    ELSE Done(self, Some(r.self), r.routine, r.freed)

\* impl Add<&Poly> for &Poly
add(self, p, debug_assertions) ==
    Returned(self, add_assign(self, p, debug_assertions))

\* The assertions that open sub_assign.
sub_assign_asserts(self, p, debug_assertions) ==
    /\ self.representation # NttShoup
    /\ self.representation = p.representation
    /\ debug_assertions => self.ctx = p.ctx

\* A sub_assign that kept the routines of add_assign.
sub_assign_adds(self, p, debug_assertions) ==
    IF ~sub_assign_asserts(self, p, debug_assertions)
    THEN Panic(self, {})
    ELSE Done([self EXCEPT
                 !.coefficients = add_rows(@, p.coefficients, self.ctx.q)],
              NoPoly,
              IF either_variable_time(self, p)
              THEN "sub_vec_vt" ELSE "sub_vec",
              {})

\* impl SubAssign<&Poly> for Poly
sub_assign(self, p, debug_assertions) ==
    IF ~sub_assign_asserts(self, p, debug_assertions)
    THEN Panic(self, {})
    ELSE Done([self EXCEPT
                 !.coefficients = sub_rows(@, p.coefficients, self.ctx.q)],
              NoPoly,
              IF either_variable_time(self, p)
              THEN "sub_vec_vt" ELSE "sub_vec",
              {})

\* impl Sub<&Poly> for &Poly
sub(self, p, debug_assertions) ==
    Returned(self, sub_assign(self, p, debug_assertions))

\* The assertions of mul_assign without the one that requires Ntt.
mul_assign_asserts_no_ntt(self, p, debug_assertions) ==
    /\ self.representation # NttShoup
    /\ debug_assertions => self.ctx = p.ctx

\* The assertions that open mul_assign.
mul_assign_asserts(self, p, debug_assertions) ==
    /\ self.representation # NttShoup
    /\ self.representation = Ntt
    /\ debug_assertions => self.ctx = p.ctx

\* impl MulAssign<&Poly> for Poly
mul_assign(self, p, debug_assertions) ==
    IF ~mul_assign_asserts(self, p, debug_assertions)
    THEN Panic(self, {})
    ELSE IF p.representation = Ntt
    THEN Done([self EXCEPT
                 !.coefficients = mul_rows(@, p.coefficients, self.ctx.q)],
              NoPoly,
              IF either_variable_time(self, p)
              THEN "mul_vec_vt" ELSE "mul_vec",
              {})
    ELSE IF p.representation = NttShoup
    THEN IF p.coefficients_shoup = None
         THEN Panic(self, {})
         ELSE Done([self EXCEPT
                      !.coefficients =
                         mul_shoup_rows(@, p.coefficients,
                                  Unwrap(p.coefficients_shoup), self.ctx.q)],
                   NoPoly,
                   IF either_variable_time(self, p)
                   THEN "mul_shoup_vec_vt" ELSE "mul_shoup_vec",
                   {})
    ELSE Panic(self, {})

\* impl MulAssign<&BigUint> for Poly: the temporary q is destroyed on return.
mul_assign_scalar(self, p) ==
    LET conv == try_convert_from_biguint(<<p>>, self.ctx, Some(self.representation))
    IN IF ~conv.ok
       THEN Panic(self, {})
       ELSE LET c == change_representation(conv.value, Ntt)
                q == c.self
            IN IF c.panic
               THEN Panic(self, c.freed \cup Buffers(q))
               ELSE Done([self EXCEPT
                            !.coefficients =
                               mul_rows(@, q.coefficients, self.ctx.q)],
                         NoPoly,
                         IF self.allow_variable_time_computations
                         THEN "mul_vec_vt" ELSE "mul_vec",
                         c.freed \cup Buffers(q))

\* impl Mul<&Poly> for &Poly
mul(self, p, debug_assertions) ==
    IF self.representation = NttShoup
    THEN IF p.representation = NttShoup
         THEN IF p.coefficients_shoup = None
              THEN Panic(self, Buffers(p))
              ELSE LET q == [p EXCEPT !.coefficients_shoup =
                                         Some(zeroize_words(Unwrap(@)))]
                       o == override_representation(q, Ntt)
                   IN Returned(self, mul_assign(o.self, self, debug_assertions))
         ELSE Returned(self, mul_assign(p, self, debug_assertions))
    ELSE Returned(self, mul_assign(self, p, debug_assertions))

\* impl Mul<&BigUint> for &Poly, and impl Mul<&Poly> for &BigUint, which
\* calls it with the operands exchanged.
mul_scalar(self, p) ==
    Returned(self, mul_assign_scalar(self, p))

\* impl Neg for &Poly
neg(self) ==
    Done(self,
         Some([self EXCEPT
                 !.coefficients = neg_rows(@, self.ctx.q)]),
         IF self.allow_variable_time_computations
         THEN "neg_vec_vt" ELSE "neg_vec",
         {})

(***************************************************************************)
(* The state: two polynomials a program holds, the value its last          *)
(* out-of-place operator returned, and a record of the last operation.     *)
(***************************************************************************)
VARIABLES
    polys,     \* polys[i]: the polynomial bound to name i, or NoPoly
    res,       \* the polynomial the last out-of-place operator returned
    last,      \* the last operation: its name, operands, argument, outcome
    freed,     \* the buffers the last operation released
    steps,     \* operations applied so far
    args,      \* args[i]: the modulus list and degree Context::new is given
    built,     \* built[i]: what Context::new returned for args[i], once called
    query,     \* the last question asked of a built context, and its answer
    given,     \* the input of a conversion into a polynomial
    result,    \* what the conversion returned, once called
    thread_rng,\* the state of the generator of the thread (rand::thread_rng)
    seeded     \* the calls of the random constructors so far, and their results

vars == <<polys, res, last, freed, steps>>
\* The state of the context chain and the state of the conversions.
cvars == <<args, built, query>>
tvars == <<given, result>>
\* The state of the random constructors.
svars == <<thread_rng, seeded>>

\* While polynomials are operated on, no context is being built or asked and
\* no conversion is under way.
NoArgs == [moduli |-> <<>>, degree |-> 0]
NoQuery == [op |-> "none"]
NoInput == [kind |-> "none"]
ContextsIdle ==
    /\ args = <<NoArgs, NoArgs>>
    /\ built = <<None, None>>
    /\ query = NoQuery
ConversionsIdle ==
    /\ given = NoInput
    /\ result = None
SamplingIdle ==
    /\ thread_rng = 0
    /\ seeded = <<>>

Regs == {1, 2}

\* Residues a sampler may draw (Modulus::random_vec), one row per prime.
SampleA == << <<1, 16, 5, 0, 12, 3, 9, 7>>, <<96, 2, 50, 0, 33, 81, 1, 64>> >>
SampleB == << <<16, 2, 13, 4, 0, 8, 11, 1>>, <<5, 95, 47, 60, 0, 22, 96, 3>> >>

\* Big integers a polynomial is multiplied by.
Scalars == {20}

\* A polynomial as a program holds it after construction: built by a
\* constructor, its flag left clear or set by
\* allow_variable_time_computations.
Flagged(S) ==
    {[p EXCEPT !.allow_variable_time_computations = vt] : p \in S, vt \in BOOLEAN}

\* The record of an operation: its name, the names of its operands (0 for
\* none), the representation or the scalar it was given, whether the build
\* kept debug assertions, whether it panicked and the routine it ran.
Op(name, i, j, to, scalar, debug_assertions, r) ==
    [op |-> name, i |-> i, j |-> j, to |-> to, scalar |-> scalar,
     debug_assertions |-> debug_assertions,
     panic |-> r.panic, routine |-> r.routine]

Init ==
    /\ \E c \in {CtxFull, CtxShort} :
       \E a \in Flagged({random(c, r, SampleA) : r \in Representation}) :
       \E b \in Flagged({zero(CtxFull, r) : r \in Representation}
                          \cup {random(CtxFull, r, SampleB) : r \in Representation}) :
         polys = <<Some(a), Some(b)>>
    /\ res = NoPoly
    /\ last = Op("new", 0, 0, NoRepr, 0, TRUE, Done(NoPoly, NoPoly, "none", {}))
    /\ freed = {}
    /\ steps = 0
    /\ ContextsIdle
    /\ ConversionsIdle
    /\ SamplingIdle

\* The polynomial bound to name i.
P(i) == Unwrap(polys[i])

\* An in-place operation on polys[i]: a panic leaves the program's
\* polynomials as they were.
InPlace(i, op, r) ==
    /\ polys' = IF r.panic THEN polys ELSE [polys EXCEPT ![i] = Some(r.self)]
    /\ res' = res
    /\ last' = op
    /\ freed' = r.freed
    /\ steps' = steps + 1
    /\ UNCHANGED <<cvars, tvars, svars>>

\* An out-of-place operation: the value returned takes the place of the
\* one the program held before, which is destroyed.
OutOfPlace(op, r) ==
    /\ polys' = polys
    /\ res' = IF r.panic THEN res ELSE r.out
    /\ last' = op
    /\ freed' = r.freed
                  \cup (IF r.panic \/ res = NoPoly THEN {} ELSE Buffers(Unwrap(res)))
    /\ steps' = steps + 1
    /\ UNCHANGED <<cvars, tvars, svars>>

Ready(i) == steps < MaxSteps /\ polys[i] # NoPoly

ChangeRepresentation(i, to) ==
    /\ Ready(i)
    /\ LET r == change_representation(P(i), to)
       IN InPlace(i, Op("change_representation", i, 0, to, 0, TRUE, r), r)

OverrideRepresentation(i, to) ==
    /\ Ready(i)
    /\ LET r == override_representation(P(i), to)
       IN InPlace(i, Op("override_representation", i, 0, to, 0, TRUE, r), r)

\* Poly::allow_variable_time_computations
AllowVariableTime(i) ==
    /\ Ready(i)
    /\ LET r == Done([P(i) EXCEPT !.allow_variable_time_computations = TRUE],
                     NoPoly, "none", {})
       IN InPlace(i, Op("allow_variable_time_computations", i, 0, NoRepr,
                        0, TRUE, r), r)

\* Poly::disallow_variable_time_computations
DisallowVariableTime(i) ==
    /\ Ready(i)
    /\ LET r == Done([P(i) EXCEPT !.allow_variable_time_computations = FALSE],
                     NoPoly, "none", {})
       IN InPlace(i, Op("disallow_variable_time_computations", i, 0, NoRepr,
                        0, TRUE, r), r)

\* The build either keeps debug assertions or drops them; the choice shows
\* only when the contexts of the operands differ.
Builds(i, j) == IF P(i).ctx = P(j).ctx THEN {TRUE} ELSE BOOLEAN

AddAssign(i, j) ==
    /\ Ready(i) /\ Ready(j) /\ i # j
    /\ \E d \in Builds(i, j) :
         LET r == add_assign(P(i), P(j), d)
         IN InPlace(i, Op("add_assign", i, j, NoRepr, 0, d, r), r)

SubAssign(i, j) ==
    /\ Ready(i) /\ Ready(j) /\ i # j
    /\ \E d \in Builds(i, j) :
         LET r == sub_assign(P(i), P(j), d)
         IN InPlace(i, Op("sub_assign", i, j, NoRepr, 0, d, r), r)

MulAssign(i, j) ==
    /\ Ready(i) /\ Ready(j) /\ i # j
    /\ \E d \in Builds(i, j) :
         LET r == mul_assign(P(i), P(j), d)
         IN InPlace(i, Op("mul_assign", i, j, NoRepr, 0, d, r), r)

MulAssignScalar(i, s) ==
    /\ Ready(i)
    /\ LET r == mul_assign_scalar(P(i), s)
       IN InPlace(i, Op("mul_assign_scalar", i, 0, NoRepr, s, TRUE, r), r)

Add(i, j) ==
    /\ Ready(i) /\ Ready(j) /\ i # j
    /\ \E d \in Builds(i, j) :
         LET r == add(P(i), P(j), d)
         IN OutOfPlace(Op("add", i, j, NoRepr, 0, d, r), r)

Sub(i, j) ==
    /\ Ready(i) /\ Ready(j) /\ i # j
    /\ \E d \in Builds(i, j) :
         LET r == sub(P(i), P(j), d)
         IN OutOfPlace(Op("sub", i, j, NoRepr, 0, d, r), r)

Mul(i, j) ==
    /\ Ready(i) /\ Ready(j) /\ i # j
    /\ \E d \in Builds(i, j) :
         LET r == mul(P(i), P(j), d)
         IN OutOfPlace(Op("mul", i, j, NoRepr, 0, d, r), r)

MulScalar(i, s) ==
    /\ Ready(i)
    /\ LET r == mul_scalar(P(i), s)
       IN OutOfPlace(Op("mul_scalar", i, 0, NoRepr, s, TRUE, r), r)

Neg(i) ==
    /\ Ready(i)
    /\ LET r == neg(P(i))
       IN OutOfPlace(Op("neg", i, 0, NoRepr, 0, TRUE, r), r)

\* #[derive(Clone)]
Clone(i) ==
    /\ Ready(i)
    /\ LET r == Done(P(i), Some(P(i)), "none", {})
       IN OutOfPlace(Op("clone", i, 0, NoRepr, 0, TRUE, r), r)

Zeroize(i) ==
    /\ Ready(i)
    /\ LET r == Done(zeroize(P(i)), NoPoly, "none", {})
       IN InPlace(i, Op("zeroize", i, 0, NoRepr, 0, TRUE, r), r)

\* The polynomial bound to name i goes out of scope.
Drop(i) ==
    /\ Ready(i)
    /\ polys' = [polys EXCEPT ![i] = NoPoly]
    /\ res' = res
    /\ last' = Op("drop", i, 0, NoRepr, 0, TRUE,
                  Done(NoPoly, NoPoly, "none", {}))
    /\ freed' = Buffers(P(i))
    /\ steps' = steps + 1
    /\ UNCHANGED <<cvars, tvars, svars>>

Next ==
    \/ \E i \in Regs, to \in Representation : ChangeRepresentation(i, to)
    \/ \E i \in Regs, to \in Representation : OverrideRepresentation(i, to)
    \/ \E i \in Regs : AllowVariableTime(i)
    \/ \E i \in Regs : DisallowVariableTime(i)
    \/ \E i, j \in Regs : AddAssign(i, j)
    \/ \E i, j \in Regs : SubAssign(i, j)
    \/ \E i, j \in Regs : MulAssign(i, j)
    \/ \E i \in Regs, s \in Scalars : MulAssignScalar(i, s)
    \/ \E i, j \in Regs : Add(i, j)
    \/ \E i, j \in Regs : Sub(i, j)
    \/ \E i, j \in Regs : Mul(i, j)
    \/ \E i \in Regs, s \in Scalars : MulScalar(i, s)
    \/ \E i \in Regs : Neg(i)
    \/ \E i \in Regs : Clone(i)
    \/ \E i \in Regs : Zeroize(i)
    \/ \E i \in Regs : Drop(i)

Spec == Init /\ [][Next]_vars

(***************************************************************************)
(* What the properties below speak of.                                     *)
(***************************************************************************)
\* The polynomials the program holds.
Held ==
    {Unwrap(polys[i]) : i \in {k \in Regs : polys[k] # NoPoly}}
      \cup (IF res = NoPoly THEN {} ELSE {Unwrap(res)})

\* The Shoup encoding of the residues of p, row by row.
ShoupRows(p) ==
    [i \in 1..Len(p.ctx.q) |->
        [j \in 1..p.ctx.degree |-> shoup(p.ctx.q[i], p.coefficients[i][j])]]

\* Every residue of row i lies in [0, q_i).
InRange(p) ==
    /\ Len(p.coefficients) = Len(p.ctx.q)
    /\ \A i \in 1..Len(p.ctx.q) : \A j \in 1..p.ctx.degree :
          p.coefficients[i][j] \in 0..(p.ctx.q[i] - 1)

\* A polynomial as the data model describes it: residues in range, and a
\* Shoup buffer exactly when tagged NttShoup, encoding the residues.
WellFormed(p) ==
    /\ InRange(p)
    /\ (p.coefficients_shoup # None) <=> (p.representation = NttShoup)
    /\ p.representation = NttShoup => p.coefficients_shoup = Some(ShoupRows(p))

\* Reference arithmetic: the residues of a and b combined entry by entry
\* modulo each prime.
RefAdd(a, b) ==
    [i \in 1..Len(a.ctx.q) |->
        [j \in 1..a.ctx.degree |->
            (a.coefficients[i][j] + b.coefficients[i][j]) % a.ctx.q[i]]]

RefSub(a, b) ==
    [i \in 1..Len(a.ctx.q) |->
        [j \in 1..a.ctx.degree |->
            (a.coefficients[i][j] - b.coefficients[i][j]) % a.ctx.q[i]]]

RefMul(a, b) ==
    [i \in 1..Len(a.ctx.q) |->
        [j \in 1..a.ctx.degree |->
            (a.coefficients[i][j] * b.coefficients[i][j]) % a.ctx.q[i]]]

RefNeg(a) ==
    [i \in 1..Len(a.ctx.q) |->
        [j \in 1..a.ctx.degree |-> (0 - a.coefficients[i][j]) % a.ctx.q[i]]]

BinaryInPlace == {"add_assign", "sub_assign", "mul_assign"}
BinaryOutOfPlace == {"add", "sub", "mul"}
VariableTimeRoutines ==
    {"add_vec_vt", "sub_vec_vt", "mul_vec_vt", "mul_shoup_vec_vt", "neg_vec_vt"}
ConstantTimeRoutines ==
    {"add_vec", "sub_vec", "mul_vec", "mul_shoup_vec", "neg_vec"}

(***************************************************************************)
(* C1.  Every polynomial the program holds carries a Shoup buffer if and   *)
(* only if it is tagged NttShoup.                                          *)
(***************************************************************************)
C1_ShoupPresentIffNttShoup ==
    \A p \in Held :
        (p.coefficients_shoup # None) <=> (p.representation = NttShoup)

(***************************************************************************)
(* C2.  The Shoup buffer of every polynomial tagged NttShoup is the Shoup  *)
(* encoding of its current residues.                                       *)
(***************************************************************************)
C2_ShoupEncodesResidues ==
    \A p \in Held :
        p.representation = NttShoup
            => p.coefficients_shoup = Some(ShoupRows(p))

(***************************************************************************)
(* C3.  change_representation(to) follows the transition table: the       *)
(* residues are kept, transformed forward or transformed backward as the   *)
(* pair (current, to) prescribes, row by row; entering NttShoup computes   *)
(* the Shoup buffer from the residues as they are after the transform;     *)
(* leaving NttShoup drops the buffer and releases it with every word       *)
(* zero; X -> X changes nothing; the tag is `to` on return, the context    *)
(* and the flag are unchanged, and the call does not panic.                *)
(***************************************************************************)
C3_Residues(p, to) ==
    IF p.representation = to
    THEN p.coefficients
    ELSE IF p.representation = PowerBasis
    THEN [i \in 1..Len(p.ctx.q) |-> forward(p.ctx.q[i], p.coefficients[i])]
    ELSE IF to = PowerBasis
    THEN [i \in 1..Len(p.ctx.q) |-> backward(p.ctx.q[i], p.coefficients[i])]
    ELSE p.coefficients

C3_TransitionTable ==
    [][last'.op = "change_representation" =>
         LET to == last'.to
             p == P(last'.i)
             n == Unwrap(polys'[last'.i])
         IN /\ ~last'.panic
            /\ n.representation = to
            /\ n.ctx = p.ctx
            /\ n.allow_variable_time_computations
                 = p.allow_variable_time_computations
            /\ n.coefficients = C3_Residues(p, to)
            /\ p.representation = to => n = p /\ freed' = {}
            /\ p.representation # NttShoup /\ to = NttShoup
                 => n.coefficients_shoup = Some(ShoupRows(n))
            /\ p.representation = NttShoup /\ to # NttShoup
                 => /\ n.coefficients_shoup = None
                    /\ freed' = {Buffer("coefficients_shoup",
                                        Zeros(Len(p.ctx.q), p.ctx.degree))}]_vars

\* A polynomial over both primes went from NttShoup to PowerBasis: its
\* residues are those drawn at construction again, its buffer was released.
C3_Witness ==
    /\ last.op = "change_representation"
    /\ last.to = PowerBasis
    /\ last.i = 2
    /\ freed # {}
    /\ polys[2] # NoPoly
    /\ P(2).representation = PowerBasis
    /\ P(2).coefficients_shoup = None
    /\ P(2).coefficients[2] # Zeros(1, Degree)[1]

(***************************************************************************)
(* C4.  Every buffer an operation releases holds only zero words when it   *)
(* is released.                                                            *)
(***************************************************************************)
C4_ReleasedBuffersAreZero ==
    \A b \in freed : IsZero(b.words)

(***************************************************************************)
(* C5.  For a and b over one context, both PowerBasis or both Ntt: a + b   *)
(* and a - b return a polynomial in that representation whose residues     *)
(* are the sums, respectively the differences, modulo each prime; -a       *)
(* returns a polynomial in the representation of a whose residues are the  *)
(* opposites; no operand is modified, and += and -= leave the right        *)
(* operand and the representation of self as they are.                     *)
(***************************************************************************)
C5_Operands(a, b) ==
    /\ a.ctx = b.ctx
    /\ a.representation = b.representation
    /\ a.representation \in {PowerBasis, Ntt}
    /\ InRange(a)
    /\ InRange(b)

C5_AddSubNeg ==
    [][/\ last'.op \in {"add", "sub"} /\ C5_Operands(P(last'.i), P(last'.j))
          => /\ ~last'.panic
             /\ polys' = polys
             /\ res' # NoPoly
             /\ Unwrap(res').representation = P(last'.i).representation
             /\ Unwrap(res').coefficients =
                  IF last'.op = "add"
                  THEN RefAdd(P(last'.i), P(last'.j))
                  ELSE RefSub(P(last'.i), P(last'.j))
       /\ last'.op \in {"add_assign", "sub_assign"}
            /\ C5_Operands(P(last'.i), P(last'.j))
          => /\ ~last'.panic
             /\ polys'[last'.j] = polys[last'.j]
             /\ Unwrap(polys'[last'.i]).representation = P(last'.i).representation
             /\ Unwrap(polys'[last'.i]).coefficients =
                  IF last'.op = "add_assign"
                  THEN RefAdd(P(last'.i), P(last'.j))
                  ELSE RefSub(P(last'.i), P(last'.j))
       /\ last'.op = "neg"
            /\ P(last'.i).representation \in {PowerBasis, Ntt}
            /\ InRange(P(last'.i))
          => /\ ~last'.panic
             /\ polys' = polys
             /\ res' # NoPoly
             /\ Unwrap(res').representation = P(last'.i).representation
             /\ Unwrap(res').coefficients =
                  RefNeg(P(last'.i))
      ]_vars

\* An Ntt polynomial was subtracted in place from another over both primes,
\* and the first difference wrapped around the modulus.
C5_Witness ==
    /\ last.op = "sub_assign"
    /\ ~last.panic
    /\ last.i = 1
    /\ P(1).representation = Ntt
    /\ P(2).representation = Ntt
    /\ Len(P(1).coefficients) = 2
    /\ P(2).coefficients[1][1] = 16
    /\ P(1).coefficients[1][1] = 2

(***************************************************************************)
(* C6.  For operands over one context built as Ntt or as NttShoup, a * b   *)
(* is the polynomial the plain Ntt * Ntt product gives: tagged Ntt, with   *)
(* the products of the residues modulo each prime and no Shoup buffer; no  *)
(* operand is modified.                                                    *)
(***************************************************************************)
C6_Operands(a, b) ==
    /\ a.ctx = b.ctx
    /\ a.representation \in {Ntt, NttShoup}
    /\ b.representation \in {Ntt, NttShoup}
    /\ WellFormed(a)
    /\ WellFormed(b)
    /\ a.allow_variable_time_computations = b.allow_variable_time_computations

C6_PlainProduct(a, b) ==
    [ctx |-> a.ctx,
     representation |-> Ntt,
     allow_variable_time_computations |-> a.allow_variable_time_computations,
     coefficients |-> RefMul(a, b),
     coefficients_shoup |-> None]

C6_ProductSameForShoup ==
    [][last'.op = "mul" /\ C6_Operands(P(last'.i), P(last'.j))
          => /\ ~last'.panic
             /\ polys' = polys
             /\ res' = Some(C6_PlainProduct(P(last'.i), P(last'.j)))]_vars

(***************************************************************************)
(* C7.  Multiplying p by a big integer s keeps the representation of p     *)
(* and turns every residue p[i][j] into p[i][j] * (s mod q_i) mod q_i, in  *)
(* each of the three representations.                                      *)
(***************************************************************************)
C7_Scaled(p, s) ==
    [i \in 1..Len(p.ctx.q) |->
        [j \in 1..p.ctx.degree |->
            (p.coefficients[i][j] * (s % p.ctx.q[i])) % p.ctx.q[i]]]

C7_ScalarMultiplication ==
    [][/\ last'.op = "mul_assign_scalar" /\ InRange(P(last'.i))
          => /\ ~last'.panic
             /\ Unwrap(polys'[last'.i]).representation = P(last'.i).representation
             /\ Unwrap(polys'[last'.i]).coefficients
                  = C7_Scaled(P(last'.i), last'.scalar)
       /\ last'.op = "mul_scalar" /\ InRange(P(last'.i))
          => /\ ~last'.panic
             /\ res' # NoPoly
             /\ Unwrap(res').representation = P(last'.i).representation
             /\ Unwrap(res').coefficients = C7_Scaled(P(last'.i), last'.scalar)
      ]_vars

(***************************************************************************)
(* C8.  On operands over one context, each operator panics exactly on its  *)
(* illegal combinations of representations and then leaves every          *)
(* polynomial as it was and returns nothing: +=, -=, + and - iff self is   *)
(* NttShoup or the representations differ; *= iff self is not Ntt or the   *)
(* other operand is PowerBasis; a * b iff one operand is PowerBasis.  An   *)
(* in-place operator that does not panic keeps the representation of self. *)
(***************************************************************************)
C8_Illegal(op, a, b) ==
    IF op \in {"add_assign", "sub_assign", "add", "sub"}
    THEN a.representation = NttShoup \/ a.representation # b.representation
    ELSE IF op = "mul_assign"
    THEN a.representation # Ntt \/ b.representation = PowerBasis
    ELSE a.representation = PowerBasis \/ b.representation = PowerBasis

C8_PanicsExactlyOnIllegal ==
    [][(/\ last'.op \in BinaryInPlace \cup BinaryOutOfPlace
        /\ P(last'.i).ctx = P(last'.j).ctx)
          => /\ last'.panic <=> C8_Illegal(last'.op, P(last'.i), P(last'.j))
             /\ last'.panic => polys' = polys /\ res' = res
             /\ ~last'.panic /\ last'.op \in BinaryInPlace
                  => Unwrap(polys'[last'.i]).representation
                       = P(last'.i).representation
             /\ ~last'.panic /\ last'.op \in BinaryOutOfPlace
                  => res' # NoPoly /\ polys' = polys]_vars

\* An Ntt polynomial was multiplied in place by a PowerBasis one over the
\* same context, and the operation panicked.
C8_Witness ==
    /\ last.op = "mul_assign"
    /\ last.panic
    /\ P(last.i).representation = Ntt
    /\ P(last.j).representation = PowerBasis
    /\ P(last.i).ctx = P(last.j).ctx

(***************************************************************************)
(* C9.  A binary operator applied to polynomials over different contexts   *)
(* panics, returns nothing and modifies nothing.                           *)
(***************************************************************************)
C9_ContextMismatchPanics ==
    [][(/\ last'.op \in BinaryInPlace \cup BinaryOutOfPlace
        /\ P(last'.i).ctx # P(last'.j).ctx)
          => last'.panic /\ polys' = polys /\ res' = res]_vars

(***************************************************************************)
(* C10.  An operation that runs takes the variable-time routine iff the    *)
(* flag of one of its polynomial operands is set (of self or of the other  *)
(* operand for +, -, *; of the sole polynomial for negation and for the    *)
(* product by a scalar), and the constant-time routine otherwise.          *)
(***************************************************************************)
C10_FlagSet(op, i, j) ==
    IF op \in BinaryInPlace \cup BinaryOutOfPlace
    THEN P(i).allow_variable_time_computations
           \/ P(j).allow_variable_time_computations
    ELSE P(i).allow_variable_time_computations

C10_PathFollowsFlags ==
    [][(/\ last'.op \in BinaryInPlace \cup BinaryOutOfPlace
                          \cup {"neg", "mul_assign_scalar", "mul_scalar"}
        /\ ~last'.panic)
          => IF C10_FlagSet(last'.op, last'.i, last'.j)
             THEN last'.routine \in VariableTimeRoutines
             ELSE last'.routine \in ConstantTimeRoutines]_vars

\* A polynomial whose flag is clear was multiplied in place by an NttShoup
\* polynomial whose flag is set, and the variable-time routine ran.
C10_Witness ==
    /\ last.op = "mul_assign"
    /\ last.routine = "mul_shoup_vec_vt"
    /\ ~P(last.i).allow_variable_time_computations
    /\ P(last.j).allow_variable_time_computations

(***************************************************************************)
(* Contexts with a chain of children                                       *)
(* (internal/math/src/rq/context.rs).                                      *)
(***************************************************************************)
\* The longest modulus list Context::new is given.
MaxModuli == 3
\* The moduli the lists are made of: primes that admit a transform of size 8
\* (17), of sizes 8 and 16 (97, 193), and a value that is no modulus (1).
ModulusCandidates == {1, 17, 97, 193}
DegreeCandidates == {4, 8, 12, 16}

\* A call that aborts (a failed unwrap, an index out of range).
Abort(msg) == [ok |-> FALSE, abort |-> msg]

\* usize::is_power_of_two
is_power_of_two(n) == \E k \in 0..WordBits : n = 2 ^ k

\* degree.trailing_zeros() for a power of two: the number of bits of an index.
Log2(n) == CHOOSE k \in 0..WordBits : n = 2 ^ k

RECURSIVE gcd(_, _)
gcd(a, b) == IF b = 0 THEN a ELSE gcd(b, a % b)

IsPrime(p) == p > 1 /\ \A d \in 2..(p - 1) : d * d > p \/ p % d # 0

\* zq::ntt::supports_ntt
supports_ntt(p, n) == p % (2 * n) = 1 /\ IsPrime(p)

\* zq::Modulus::new: a modulus is at least 2 and leaves two bits of a word.
Modulus_new(p) ==
    IF p < 2 \/ p >= 2 ^ (WordBits - 2)
    THEN Err("The modulus is invalid")
    ELSE Ok(p)

\* zq::ntt::NttOperator::new
NttOperator_new(p, size) ==
    IF supports_ntt(p, size) THEN Some([p |-> p, size |-> size]) ELSE None

\* rns::RnsContext::new: fails on an empty list, on an invalid modulus and on
\* moduli that are not pairwise coprime.
RnsContext_new(moduli) ==
    IF Len(moduli) = 0
    THEN Err("The list of moduli is empty")
    ELSE IF \E i \in 1..Len(moduli) : ~Modulus_new(moduli[i]).ok
    THEN Err("The modulus is invalid")
    ELSE IF \E i, j \in 1..Len(moduli) : i < j /\ gcd(moduli[i], moduli[j]) # 1
    THEN Err("The moduli are not coprime")
    ELSE Ok([moduli_u64 |-> moduli])

\* zq::Modulus::inv
Modulus_inv(q, a) ==
    IF \E x \in 1..(q - 1) : (x * a) % q = 1
    THEN Some(CHOOSE x \in 1..(q - 1) : (x * a) % q = 1)
    ELSE None

\* j.reverse_bits() >> (degree.leading_zeros() + 1): the nbits low bits of j
\* in reverse order.
RECURSIVE reverse_bits(_, _)
reverse_bits(j, nbits) ==
    IF nbits = 0
    THEN 0
    ELSE (j % 2) * 2 ^ (nbits - 1) + reverse_bits(j \div 2, nbits - 1)

bitrev(degree) ==
    [j \in 1..degree |-> reverse_bits(j - 1, Log2(degree))]

\* The test that opens Context::new, without the lower bound on the degree.
invalid_degree_any_power(degree) ==
    ~is_power_of_two(degree)

\* The test that opens Context::new.
invalid_degree(degree) ==
    ~is_power_of_two(degree) \/ degree < 8

\* Context::new.  The ? operator hands an error of a collaborator, or of the
\* construction of the child, to the caller.
RECURSIVE new(_, _)
new(moduli, degree) ==
    IF invalid_degree(degree)
    THEN Err("The degree is not a power of two larger or equal to 8")
    ELSE LET n == Len(moduli)
             rns == RnsContext_new(moduli)
             bad == {i \in 1..n : \/ ~Modulus_new(moduli[i]).ok
                                  \/ NttOperator_new(moduli[i], degree) = None}
             first_bad == CHOOSE i \in bad : \A k \in bad : i <= k
             q_last == moduli[n]
             inv(i) == Modulus_inv(moduli[i], q_last % moduli[i])
             next == new(SubSeq(moduli, 1, n - 1), degree)
         IN IF ~rns.ok
            THEN rns
            ELSE IF bad # {}
            THEN IF ~Modulus_new(moduli[first_bad]).ok
                 THEN Modulus_new(moduli[first_bad])
                 ELSE Err("Impossible to construct a Ntt operator")
            ELSE IF n = 0
            THEN Abort("unwrap on a None value")
            ELSE IF \E i \in 1..(n - 1) : inv(i) = None
            THEN Abort("unwrap on a None value")
            ELSE IF n >= 2 /\ ~next.ok
            THEN next
            ELSE Ok([moduli |-> moduli,
                     q |-> [i \in 1..n |-> Modulus_new(moduli[i]).value],
                     rns |-> rns.value,
                     ops |-> [i \in 1..n |->
                                Unwrap(NttOperator_new(moduli[i], degree))],
                     degree |-> degree,
                     bitrev |-> bitrev(degree),
                     inv_last_qi_mod_qj |->
                        [i \in 1..(n - 1) |-> Unwrap(inv(i))],
                     inv_last_qi_mod_qj_shoup |->
                        [i \in 1..(n - 1) |-> shoup(moduli[i], Unwrap(inv(i)))],
                     next_context |->
                        IF n >= 2 THEN Some(next.value) ELSE None])

\* Equality on the moduli alone.
Context_eq_moduli(a, b) ==
    a.moduli = b.moduli

\* #[derive(PartialEq, Eq)] on Context: every field is compared.
Context_eq(a, b) ==
    a = b

\* The loop of niterations_to, started at current with niterations hops made.
RECURSIVE niterations_loop(_, _, _)
niterations_loop(current_ctx, context, niterations) ==
    IF current_ctx.next_context = None
    THEN Err("InvalidContext")
    ELSE IF Context_eq(Unwrap(current_ctx.next_context), context)
    THEN Ok(niterations + 1)
    ELSE niterations_loop(Unwrap(current_ctx.next_context), context,
                          niterations + 1)

\* A niterations_to that goes down the chain at once.
niterations_to_no_self(self, context) ==
    niterations_loop(self, context, 0)

\* Context::niterations_to
niterations_to(self, context) ==
    IF Context_eq(context, self)
    THEN Ok(0)
    ELSE niterations_loop(self, context, 0)

\* The loop of context_at_level: i hops down the chain.
RECURSIVE descend(_, _)
descend(current_ctx, i) ==
    IF i = 0
    THEN Ok(current_ctx)
    ELSE IF current_ctx.next_context = None
    THEN Abort("unwrap on a None value")
    ELSE descend(Unwrap(current_ctx.next_context), i - 1)

\* A context_at_level that refuses the last level too.
context_at_level_short(self, i) ==
    IF i + 1 >= Len(self.moduli)
    THEN Err("No context at the specified level")
    ELSE descend(self, i)

\* Context::context_at_level
context_at_level(self, i) ==
    IF i >= Len(self.moduli)
    THEN Err("No context at the specified level")
    ELSE descend(self, i)

(***************************************************************************)
(* A program that builds two contexts and asks one question of them.       *)
(***************************************************************************)
RECURSIVE ListsUpTo(_)
ListsUpTo(n) ==
    IF n = 0
    THEN {<<>>}
    ELSE ListsUpTo(n - 1)
           \cup {Append(l, m) : l \in {k \in ListsUpTo(n - 1) : Len(k) = n - 1},
                                m \in ModulusCandidates}

\* What the first context is built from, and the other one.
Args1 ==
    {[moduli |-> l, degree |-> d] : l \in ListsUpTo(MaxModuli),
                                    d \in DegreeCandidates}
Args2 ==
    {[moduli |-> l, degree |-> 8] : l \in {<<97>>, <<97, 193>>, <<193>>}}
      \cup {[moduli |-> <<97>>, degree |-> 16]}

Levels == 0..MaxModuli

PolysIdle ==
    /\ polys = <<NoPoly, NoPoly>>
    /\ res = NoPoly
    /\ last = Op("new", 0, 0, NoRepr, 0, TRUE, Done(NoPoly, NoPoly, "none", {}))
    /\ freed = {}
    /\ steps = 0

InitContexts ==
    /\ args \in {<<a, b>> : a \in Args1, b \in Args2}
    /\ built = <<None, None>>
    /\ query = NoQuery
    /\ PolysIdle
    /\ ConversionsIdle
    /\ SamplingIdle

\* built[i] holds a context.
Built(i) == built[i] # None /\ Unwrap(built[i]).ok
\* The context built[i] holds.
C(i) == Unwrap(built[i]).value

Asked(q) ==
    /\ query' = q
    /\ UNCHANGED <<args, built, vars, tvars, svars>>

New(i) ==
    /\ built[i] = None
    /\ built' = [built EXCEPT ![i] = Some(new(args[i].moduli, args[i].degree))]
    /\ UNCHANGED <<args, query, vars, tvars, svars>>

ContextAtLevel(i, level) ==
    /\ Built(i)
    /\ query = NoQuery
    /\ Asked([op |-> "context_at_level", self |-> i, level |-> level,
              answer |-> context_at_level(C(i), level)])

\* C(i).context_at_level(from).niterations_to(C(i).context_at_level(level))
NiterationsToLevel(i, from, level) ==
    /\ Built(i)
    /\ query = NoQuery
    /\ context_at_level(C(i), from).ok
    /\ context_at_level(C(i), level).ok
    /\ Asked([op |-> "niterations_to_level", self |-> i, from |-> from,
              level |-> level,
              answer |-> niterations_to(context_at_level(C(i), from).value,
                                        context_at_level(C(i), level).value)])

\* C(i).context_at_level(from).niterations_to(C(j)), C(j) built on its own.
NiterationsToBuilt(i, from, j) ==
    /\ Built(i)
    /\ Built(j)
    /\ query = NoQuery
    /\ context_at_level(C(i), from).ok
    /\ Asked([op |-> "niterations_to_built", self |-> i, from |-> from,
              target |-> j,
              answer |-> niterations_to(context_at_level(C(i), from).value,
                                        C(j))])

NextContexts ==
    \/ \E i \in Regs : New(i)
    \/ \E i \in Regs, level \in Levels : ContextAtLevel(i, level)
    \/ \E i \in Regs, from \in Levels, level \in Levels :
          NiterationsToLevel(i, from, level)
    \/ \E i \in Regs, from \in Levels : \E j \in Regs \ {i} :
          NiterationsToBuilt(i, from, j)

SpecContexts == InitContexts /\ [][NextContexts]_<<vars, cvars, tvars, svars>>

(***************************************************************************)
(* What the properties of contexts speak of.                               *)
(***************************************************************************)
\* The contexts met from c along next_context, c first.
RECURSIVE Chain(_)
Chain(c) ==
    IF c.next_context = None
    THEN <<c>>
    ELSE <<c>> \o Chain(Unwrap(c.next_context))

\* The first n entries of a list.
Prefix(l, n) == SubSeq(l, 1, n)

\* A list the collaborators accept: not empty, of moduli, pairwise coprime.
AcceptedList(l) ==
    /\ Len(l) > 0
    /\ \A i \in 1..Len(l) : l[i] >= 2
    /\ \A i, j \in 1..Len(l) : i # j => gcd(l[i], l[j]) = 1

\* A list of distinct primes.
DistinctPrimes(l) ==
    /\ Len(l) > 0
    /\ \A i \in 1..Len(l) : IsPrime(l[i])
    /\ \A i, j \in 1..Len(l) : i # j => l[i] # l[j]

ValidDegree(d) == d \in {8, 16, 32, 64}

\* The call returned an error value: it did not abort and built nothing.
IsError(r) == ~r.ok /\ DOMAIN r = {"ok", "err"}

(***************************************************************************)
(* C11.  Context::new never aborts.  It returns an error when the degree   *)
(* is not a power of two or is below 8, when the collaborators reject the  *)
(* list (the empty list included), and when a modulus at any position      *)
(* admits no transform of that degree; for distinct primes and a valid     *)
(* degree it succeeds iff every modulus supports the transform, and what   *)
(* it then returns is a whole context for the list and degree given.       *)
(***************************************************************************)
C11_Outcome(a, r) ==
    /\ r.ok \/ IsError(r)
    /\ ~ValidDegree(a.degree) => IsError(r)
    /\ ~AcceptedList(a.moduli) => IsError(r)
    /\ (\E i \in 1..Len(a.moduli) : ~supports_ntt(a.moduli[i], a.degree))
          => IsError(r)
    /\ DistinctPrimes(a.moduli) /\ ValidDegree(a.degree)
          => (r.ok <=> \A i \in 1..Len(a.moduli) :
                          supports_ntt(a.moduli[i], a.degree))
    /\ r.ok => /\ r.value.moduli = a.moduli
               /\ r.value.degree = a.degree
               /\ Len(r.value.q) = Len(a.moduli)
               /\ Len(r.value.ops) = Len(a.moduli)

C11_NewReturnsErrors ==
    \A i \in Regs : built[i] # None => C11_Outcome(args[i], Unwrap(built[i]))

\* A list whose second modulus alone admits no transform of size 16 was
\* refused.
C11_Witness ==
    /\ built[1] # None
    /\ args[1] = [moduli |-> <<97, 17>>, degree |-> 16]
    /\ Unwrap(built[1]) = Err("Impossible to construct a Ntt operator")

(***************************************************************************)
(* C12.  From a context built with n moduli, next_context leads through    *)
(* exactly n - 1 further contexts; the k-th of them has the first n - k    *)
(* moduli in their order, the same degree and n - k - 1 inverse constants. *)
(* context_at_level(i) succeeds iff i < n and then returns the context     *)
(* with the first n - i moduli (the context itself for i = 0); for i >= n  *)
(* it returns an error and does not abort.                                 *)
(***************************************************************************)
C12_ChainOf(c) ==
    LET n == Len(c.moduli)
    IN /\ Len(Chain(c)) = n
       /\ \A k \in 0..(n - 1) :
             /\ Chain(c)[k + 1].moduli = Prefix(c.moduli, n - k)
             /\ Chain(c)[k + 1].degree = c.degree
             /\ Len(Chain(c)[k + 1].inv_last_qi_mod_qj) = n - k - 1

C12_ChainAndLevels ==
    /\ \A i \in Regs : Built(i) => C12_ChainOf(C(i))
    /\ query.op = "context_at_level"
          => LET c == C(query.self)
                 n == Len(c.moduli)
             IN /\ query.answer.ok <=> query.level < n
                /\ query.answer.ok
                     => /\ query.answer.value = Chain(c)[query.level + 1]
                        /\ query.answer.value.moduli
                             = Prefix(c.moduli, n - query.level)
                /\ query.level = 0 => query.answer = Ok(c)
                /\ query.level >= n => IsError(query.answer)

\* The last level of a context with three moduli was asked for and is the
\* context of the first modulus.
C12_Witness ==
    /\ query.op = "context_at_level"
    /\ query.level = 2
    /\ Len(C(query.self).moduli) = 3
    /\ query.answer.ok
    /\ query.answer.value.moduli = Prefix(C(query.self).moduli, 1)
    /\ query.answer.value.next_context = None

(***************************************************************************)
(* C13.  For a context C with n moduli and i < n:                          *)
(* C.niterations_to(C.context_at_level(i)) is i and                        *)
(* C.context_at_level(i).niterations_to(C.context_at_level(i)) is 0, also  *)
(* when the target was built on its own from the first n - i moduli and    *)
(* the same degree.  For a target that is neither C nor on the chain of C, *)
(* niterations_to returns the InvalidContext error and does not abort.     *)
(***************************************************************************)
\* The level of C(i) whose moduli and degree C(j) was built with, if any.
C13_LevelsOf(i, j) ==
    {l \in 0..(Len(C(i).moduli) - 1) :
        /\ args[j].moduli = Prefix(C(i).moduli, Len(C(i).moduli) - l)
        /\ args[j].degree = C(i).degree}

C13_Iterations ==
    /\ query.op = "niterations_to_level"
          => /\ query.from = 0 => query.answer = Ok(query.level)
             /\ query.from = query.level => query.answer = Ok(0)
    /\ query.op = "niterations_to_built"
          => /\ \A l \in C13_LevelsOf(query.self, query.target) :
                   /\ query.from = 0 => query.answer = Ok(l)
                   /\ query.from = l => query.answer = Ok(0)
             /\ (/\ query.from = 0
                 /\ \A k \in 1..Len(Chain(C(query.self))) :
                       Chain(C(query.self))[k] # C(query.target))
                   => query.answer = Err("InvalidContext")

\* A context built on its own from the first of two moduli was found one
\* hop down the chain.
C13_Witness ==
    /\ query.op = "niterations_to_built"
    /\ query.from = 0
    /\ Len(C(query.self).moduli) = 2
    /\ Len(C(query.target).moduli) = 1
    /\ query.answer = Ok(1)

(***************************************************************************)
(* C14.  Two contexts that were built compare equal if and only if they    *)
(* were built from equal modulus lists and equal degrees.                  *)
(***************************************************************************)
C14_EqualIffSameModuliAndDegree ==
    Built(1) /\ Built(2)
       => (Context_eq(C(1), C(2))
             <=> args[1].moduli = args[2].moduli
                   /\ args[1].degree = args[2].degree)

\* C14 as stated: two contexts that were built compare equal if and only
\* if their modulus lists are equal.
C14_EqualIffSameModuli ==
    Built(1) /\ Built(2)
       => (Context_eq(C(1), C(2)) <=> args[1].moduli = args[2].moduli)

\* Two contexts were built from one modulus list and two degrees, and they
\* are not equal.
C14_Witness ==
    /\ Built(1)
    /\ Built(2)
    /\ C(1).moduli = C(2).moduli
    /\ C(1).degree # C(2).degree
    /\ ~Context_eq(C(1), C(2))

(***************************************************************************)
(* Conversions into a polynomial (the TryConvertFrom implementations) and  *)
(* the wire record (proto_rq::Rq).                                         *)
(***************************************************************************)
\* The longest sequence handed to a conversion.
MaxLen == 17

\* Modulus::reduce_vec and Modulus::reduce_vec_i64: every value modulo q.
reduce_vec(q, a) == [j \in 1..Len(a) |-> a[j] % q]
reduce_vec_i64(q, a) == [j \in 1..Len(a) |-> a[j] % q]

\* Array2::from_shape_vec((rows, cols), v): the rows read one after the
\* other, or an error when the count of values is not rows * cols.
from_shape_vec(rows, cols, v) ==
    IF Len(v) = rows * cols
    THEN Ok([i \in 1..rows |-> [j \in 1..cols |-> v[(i - 1) * cols + j]]])
    ELSE Err("ShapeError")

\* The polynomial a conversion assembles around a residue array.
from_array(ctx, representation, coefficients) ==
    LET p == [ctx |-> ctx,
              representation |-> representation,
              allow_variable_time_computations |-> FALSE,
              coefficients |-> coefficients,
              coefficients_shoup |-> None]
    IN IF representation = NttShoup THEN compute_coefficients_shoup(p) ELSE p

\* The branch of the Vec<u64> conversion for sequences no longer than the
\* degree: wi[..v.len()].copy_from_slice(&v); qi.reduce_vec(wi).
padded_and_reduced(v, ctx) ==
    [zero(ctx, PowerBasis) EXCEPT
       !.coefficients =
          [i \in 1..Len(ctx.q) |->
              reduce_vec(ctx.q[i],
                         [j \in 1..ctx.degree |->
                             IF j <= Len(v) THEN v[j] ELSE 0])]]

\* A conversion of Vec<u64> that takes one value more than the degree.
try_convert_from_vec_one_more(v, ctx, representation) ==
    IF representation = None
    THEN Err("When converting from a vector, the representation needs to be specified")
    ELSE IF Unwrap(representation) # PowerBasis
    THEN IF from_shape_vec(Len(ctx.q), ctx.degree, v).ok
         THEN Ok(from_array(ctx, Unwrap(representation),
                            from_shape_vec(Len(ctx.q), ctx.degree, v).value))
         ELSE Err("all coefficients must be specified")
    ELSE IF Len(v) = Len(ctx.q) * ctx.degree
    THEN Ok(from_array(ctx, PowerBasis,
                       from_shape_vec(Len(ctx.q), ctx.degree, v).value))
    ELSE IF Len(v) <= ctx.degree + 1
    THEN Ok(padded_and_reduced(v, ctx))
    ELSE Err("In PowerBasis representation, either all coefficients must be specified, or only coefficients up to the degree")

\* impl TryConvertFrom<Vec<u64>> for Poly
try_convert_from_vec(v, ctx, representation) ==
    IF representation = Some(Ntt)
    THEN IF from_shape_vec(Len(ctx.q), ctx.degree, v).ok
         THEN Ok(from_array(ctx, Ntt,
                            from_shape_vec(Len(ctx.q), ctx.degree, v).value))
         ELSE Err("In Ntt representation, all coefficients must be specified")
    ELSE IF representation = Some(NttShoup)
    THEN IF from_shape_vec(Len(ctx.q), ctx.degree, v).ok
         THEN Ok(from_array(ctx, NttShoup,
                            from_shape_vec(Len(ctx.q), ctx.degree, v).value))
         ELSE Err("In NttShoup representation, all coefficients must be specified")
    ELSE IF representation = Some(PowerBasis)
    THEN IF Len(v) = Len(ctx.q) * ctx.degree
         THEN Ok(from_array(ctx, PowerBasis,
                            from_shape_vec(Len(ctx.q), ctx.degree, v).value))
         ELSE IF Len(v) <= ctx.degree
         THEN Ok(padded_and_reduced(v, ctx))
         ELSE Err("In PowerBasis representation, either all coefficients must be specified, or only coefficients up to the degree")
    ELSE Err("When converting from a vector, the representation needs to be specified")

\* impl TryConvertFrom<&[T]> for Poly (and for &Vec<T>, &[T; N]): the values
\* are copied into a Vec<u64>.
try_convert_from_slice(v, ctx, representation) ==
    try_convert_from_vec(v, ctx, representation)

\* impl<T: Unsigned> TryConvertFrom<T> for Poly
try_convert_from_unsigned(value, ctx, representation) ==
    IF representation = Some(PowerBasis)
    THEN try_convert_from_slice(<<value>>, ctx, representation)
    ELSE Err("Converting from constant values is only possible in PowerBasis representation")

\* impl TryConvertFrom<&[i64]> for Poly
try_convert_from_i64(v, ctx, representation) ==
    IF representation # Some(PowerBasis)
    THEN Err("Converting signed integer require to import in PowerBasis representation")
    ELSE IF Len(v) <= ctx.degree
    THEN Ok([zero(ctx, PowerBasis) EXCEPT
               !.coefficients =
                  [i \in 1..Len(ctx.q) |->
                      [j \in 1..ctx.degree |->
                          IF j <= Len(v)
                          THEN reduce_vec_i64(ctx.q[i], v)[j]
                          ELSE 0]]])
    ELSE Err("In PowerBasis representation with signed integers, only degree coefficients can be specified")

\* impl TryConvertFrom<Array2<u64>> for Poly
try_convert_from_array2(a, ctx, representation) ==
    IF Len(a) # Len(ctx.q) \/ \E i \in 1..Len(a) : Len(a[i]) # ctx.degree
    THEN Err("The array of coefficient does not have the correct shape")
    ELSE IF representation # None
    THEN Ok(from_array(ctx, Unwrap(representation), a))
    ELSE Err("When converting from a 2-dimensional array, the representation needs to be specified")

\* proto_rq::rq::Representation: the values of the field on the wire.
proto_Representation ==
    [UNKNOWN |-> 0, POWERBASIS |-> 1, NTT |-> 2, NTTSHOUP |-> 3]

\* EnumOrUnknown::new(x).value() and EnumOrUnknown::enum_value_or_default: a
\* value that is no variant reads as the default variant, the one of value 0.
enum_value_or_default(x) ==
    IF x \in {proto_Representation.UNKNOWN, proto_Representation.POWERBASIS,
              proto_Representation.NTT, proto_Representation.NTTSHOUP}
    THEN x
    ELSE proto_Representation.UNKNOWN

\* The number of bits a residue modulo q is written with.
nbits(q) == CHOOSE k \in 0..WordBits : 2 ^ k >= q /\ (k = 0 \/ 2 ^ (k - 1) < q)

\* Modulus::serialization_length
serialization_length(q, size) == (nbits(q) * size) \div 8

\* Bit k of x, bit 0 the lowest.
Bit(x, k) == (x \div 2 ^ k) % 2

\* Modulus::serialize_vec: the residues written with nbits(q) bits each, one
\* after the other, and the bits cut into bytes.
serialize_vec(q, v) ==
    [b \in 1..serialization_length(q, Len(v)) |->
        SumTo([t \in 1..8 |->
                 LET k == 8 * (b - 1) + (t - 1)
                 IN Bit(v[(k \div nbits(q)) + 1], k % nbits(q)) * 2 ^ (t - 1)],
              8)]

\* Modulus::deserialize_vec: the bytes read back as residues of nbits(q)
\* bits, or None when they do not hold a whole number of residues.
deserialize_vec(q, b) ==
    IF (8 * Len(b)) % nbits(q) # 0
    THEN None
    ELSE Some([j \in 1..((8 * Len(b)) \div nbits(q)) |->
                 SumTo([t \in 1..nbits(q) |->
                          LET k == nbits(q) * (j - 1) + (t - 1)
                          IN Bit(b[(k \div 8) + 1], k % 8) * 2 ^ (t - 1)],
                       nbits(q))])

\* The sequences of seqs[1..n] one after the other.
RECURSIVE Concat(_, _)
Concat(seqs, n) == IF n = 0 THEN <<>> ELSE Concat(seqs, n - 1) \o seqs[n]

\* impl From<&Poly> for proto_rq::Rq
from_poly(p) ==
    [representation |->
        IF p.representation = PowerBasis THEN proto_Representation.POWERBASIS
        ELSE IF p.representation = Ntt THEN proto_Representation.NTT
        ELSE proto_Representation.NTTSHOUP,
     coefficients |->
        Concat([i \in 1..Min2(Len(p.coefficients), Len(p.ctx.q)) |->
                   serialize_vec(p.ctx.q[i], p.coefficients[i])],
               Min2(Len(p.coefficients), Len(p.ctx.q))),
     degree |-> p.ctx.degree]

\* A match that reads a value that is no representation as PowerBasis.
representation_from_proto_lenient(repr) ==
    IF repr = proto_Representation.NTT THEN Ok(Ntt)
    ELSE IF repr = proto_Representation.NTTSHOUP THEN Ok(NttShoup)
    ELSE Ok(PowerBasis)

\* The match on the representation of the record.
representation_from_proto(repr) ==
    IF repr = proto_Representation.POWERBASIS THEN Ok(PowerBasis)
    ELSE IF repr = proto_Representation.NTT THEN Ok(Ntt)
    ELSE IF repr = proto_Representation.NTTSHOUP THEN Ok(NttShoup)
    ELSE Err("Unknown representation")

\* impl TryConvertFrom<&proto_rq::Rq> for Poly
try_convert_from_proto(value, ctx, representation) ==
    LET from_proto ==
            representation_from_proto(enum_value_or_default(value.representation))
        degree == value.degree
        size(i) == serialization_length(ctx.q[i], degree)
        expected_nbytes == SumTo([i \in 1..Len(ctx.q) |-> size(i)], Len(ctx.q))
        index(i) == SumTo([k \in 1..Len(ctx.q) |-> size(k)], i - 1)
        v(i) == deserialize_vec(ctx.q[i],
                                SubSeq(value.coefficients,
                                       index(i) + 1, index(i) + size(i)))
    IN IF ~from_proto.ok
       THEN from_proto
       ELSE IF representation # None /\ Unwrap(representation) # from_proto.value
       THEN Err("The representation asked for does not match the representation in the serialization")
       ELSE IF degree % 8 # 0 \/ degree < 8
       THEN Err("Invalid degree")
       ELSE IF Len(value.coefficients) # expected_nbytes
       THEN Err("Invalid coefficients")
       ELSE IF \E i \in 1..Len(ctx.q) : v(i) = None
       THEN Err("Could not deserialize the polynomial coefficients")
       ELSE try_convert_from_vec(
                Concat([i \in 1..Len(ctx.q) |-> Unwrap(v(i))], Len(ctx.q)),
                ctx, Some(from_proto.value))

\* sample_vec_cbd(size, variance): size signed samples of the centered
\* binomial distribution, here the values drawn, or an error for a variance
\* outside [1, 16].
sample_vec_cbd(size, variance, drawn) ==
    IF variance \in 1..16
    THEN Ok([j \in 1..size |-> drawn[j]])
    ELSE Err("The variance should be between 1 and 16")

\* What Poly::small returns and the buffers it releases on the way.
Small_returns(out, released) == [out |-> out, freed |-> released]

\* Poly::small.  The buffer coeffs is released when the function returns:
\* after coeffs.zeroize() when the conversion went through, as it is when
\* the ? operator returns the error of the conversion.
small(ctx, representation, variance, drawn) ==
    IF variance \notin 1..16
    THEN Small_returns(Err("The variance should be an integer between 1 and 16"),
                       {})
    ELSE LET coeffs == sample_vec_cbd(ctx.degree, variance, drawn)
         IN IF ~coeffs.ok
            THEN Small_returns(coeffs, {})
            ELSE LET p == try_convert_from_i64(coeffs.value, ctx,
                                               Some(representation))
                 IN IF ~p.ok
                    THEN Small_returns(p, {Buffer("coeffs", <<coeffs.value>>)})
                    ELSE Small_returns(
                             Ok(p.value),
                             {Buffer("coeffs", zeroize_words(<<coeffs.value>>))})

(***************************************************************************)
(* A program that converts one input.                                      *)
(***************************************************************************)
CtxSwapped == Context_new(<<MODULI[2], MODULI[1]>>, Degree)
\* The last prime alone, at the degree of the others and at twice it.
CtxLast == Context_new(SubSeq(MODULI, 2, 2), Degree)
CtxWide == Context_new(SubSeq(MODULI, 2, 2), 2 * Degree)
Contexts == {CtxFull, CtxShort, CtxSwapped, CtxLast, CtxWide}
\* Option<Representation>
Asserted == {None} \cup {Some(r) : r \in Representation}

\* Unsigned values, below and above the moduli, and signed ones.
UnsignedOfLen(n) == [j \in 1..n |-> (63 + 37 * j) % 251]
SignedOfLen(n) == [j \in 1..n |-> ((63 + 37 * j) % 251) - 125]

\* The inputs of the conversions, one shape of record for each type.
FromVec(v, ctx, representation) ==
    [kind |-> "vec", v |-> v, ctx |-> ctx, representation |-> representation]
FromUnsigned(value, ctx, representation) ==
    [kind |-> "unsigned", value |-> value, ctx |-> ctx,
     representation |-> representation]
FromI64(v, ctx, representation) ==
    [kind |-> "i64", v |-> v, ctx |-> ctx, representation |-> representation]
FromArray2(a, ctx, representation) ==
    [kind |-> "array2", a |-> a, ctx |-> ctx, representation |-> representation]
FromBigUint(v, ctx, representation) ==
    [kind |-> "biguint", v |-> v, ctx |-> ctx,
     representation |-> representation]
FromPoly(p, ctx, representation) ==
    [kind |-> "poly", p |-> p, ctx |-> ctx, representation |-> representation]
FromSmall(variance, drawn, ctx, target) ==
    [kind |-> "small", variance |-> variance, drawn |-> drawn, ctx |-> ctx,
     target |-> target]
FromProto(rq, ctx, representation, of) ==
    [kind |-> "proto", rq |-> rq, ctx |-> ctx,
     representation |-> representation, of |-> of]

\* The variances small is asked for, and the samples the sampler draws for
\* each: values from -2 * variance to 2 * variance.
Variances == {0, 1, 16, 17}
CbdOfLen(n, variance) ==
    [j \in 1..n |-> ((7 + 5 * j) % (4 * variance + 1)) - 2 * variance]

\* The polynomials that are written to the wire.
Encoded ==
    Flagged({random(c, r, SampleA) : c \in {CtxFull, CtxShort, CtxLast},
                                     r \in Representation})

\* Records that no encoding writes: a representation that is no variant, a
\* degree other than the one of the context.
Tampered ==
    {[from_poly(p) EXCEPT !.representation = t] :
        p \in {random(CtxShort, PowerBasis, SampleA)}, t \in {0, 4, 7}}
      \cup {[from_poly(p) EXCEPT !.degree = d] :
              p \in {random(CtxShort, Ntt, SampleA)}, d \in {4, 12, 16}}

Inputs ==
    {FromVec(UnsignedOfLen(n), c, r) :
        n \in 0..MaxLen, c \in Contexts, r \in Asserted}
      \cup {FromUnsigned(x, c, r) :
              x \in {0, 20, 100}, c \in Contexts, r \in Asserted}
      \cup {FromI64(SignedOfLen(n), c, r) :
              n \in 0..MaxLen, c \in Contexts, r \in Asserted}
      \cup {FromArray2([i \in 1..rows |-> UnsignedOfLen(cols)], c, r) :
              rows \in 1..2, cols \in {Degree - 1, Degree, Degree + 1},
              c \in Contexts, r \in Asserted}
      \cup {FromBigUint([j \in 1..n |-> 1000 + j], c, r) :
              n \in {0, 1, Degree, Degree + 1}, c \in Contexts, r \in Asserted}
      \cup {FromPoly(p, c, r) :
              p \in Encoded, c \in Contexts, r \in Asserted}
      \cup {FromProto(t, c, r, None) :
              t \in Tampered, c \in Contexts, r \in Asserted}
      \cup {FromSmall(s, CbdOfLen(c.degree, s), c, r) :
              s \in Variances, c \in Contexts, r \in Representation}

InitConversions ==
    /\ given \in Inputs
    /\ result = None
    /\ PolysIdle
    /\ ContextsIdle
    /\ SamplingIdle

Converted(r) ==
    /\ result = None
    /\ result' = Some(r)
    /\ UNCHANGED <<given, vars, cvars, svars>>

TryConvertFromVec ==
    /\ given.kind = "vec"
    /\ Converted(try_convert_from_slice(given.v, given.ctx, given.representation))

TryConvertFromUnsigned ==
    /\ given.kind = "unsigned"
    /\ Converted(try_convert_from_unsigned(given.value, given.ctx,
                                           given.representation))

TryConvertFromI64 ==
    /\ given.kind = "i64"
    /\ Converted(try_convert_from_i64(given.v, given.ctx, given.representation))

TryConvertFromArray2 ==
    /\ given.kind = "array2"
    /\ Converted(try_convert_from_array2(given.a, given.ctx,
                                         given.representation))

TryConvertFromBigUint ==
    /\ given.kind = "biguint"
    /\ Converted(try_convert_from_biguint(given.v, given.ctx,
                                          given.representation))

\* proto_rq::Rq::from(&p): the record takes the place of the polynomial.
Encode ==
    /\ given.kind = "poly"
    /\ given' = FromProto(from_poly(given.p), given.ctx,
                           given.representation, Some(given.p))
    /\ UNCHANGED <<result, vars, cvars, svars>>

TryConvertFromProto ==
    /\ given.kind = "proto"
    /\ Converted(try_convert_from_proto(given.rq, given.ctx,
                                        given.representation))

\* Poly::small(&ctx, target, variance)
Small ==
    /\ given.kind = "small"
    /\ result = None
    /\ LET r == small(given.ctx, given.target, given.variance, given.drawn)
       IN /\ result' = Some(r.out)
          /\ freed' = r.freed
    /\ UNCHANGED <<given, polys, res, last, steps, cvars, svars>>

NextConversions ==
    \/ TryConvertFromVec
    \/ TryConvertFromUnsigned
    \/ TryConvertFromI64
    \/ TryConvertFromArray2
    \/ TryConvertFromBigUint
    \/ Encode
    \/ TryConvertFromProto
    \/ Small

SpecConversions == InitConversions /\ [][NextConversions]_<<vars, cvars, tvars, svars>>

(***************************************************************************)
(* Claims about the conversions.                                           *)
(***************************************************************************)
\* The conversion has returned.
Returns == result # None
\* What the conversion returned.
Outcome == Unwrap(result)
\* The conversion returned a polynomial.
Succeeds == Returns /\ Outcome.ok

(***************************************************************************)
(* C15.  Every polynomial a successful conversion returns has a residue    *)
(* array of one row per modulus and degree entries per row, and every      *)
(* entry of row i lies in [0, q_i).                                        *)
(***************************************************************************)
C15_ConvertedResiduesInRange ==
    Succeeds =>
        /\ InRange(Outcome.value)
        /\ \A i \in 1..Len(Outcome.value.coefficients) :
              Len(Outcome.value.coefficients[i]) = Outcome.value.ctx.degree

(***************************************************************************)
(* C16.  An unsigned sequence v no longer than the degree, imported with   *)
(* representation PowerBasis into any context, gives a polynomial whose    *)
(* row i holds v[j] mod q_i at the positions of v and 0 after them; the    *)
(* sequence of length degree in a context of one modulus and the values    *)
(* at or above q_i are included.                                           *)
(***************************************************************************)
C16_Short ==
    /\ given.kind = "vec"
    /\ given.representation = Some(PowerBasis)
    /\ Len(given.v) <= given.ctx.degree

C16_ShortImportPadsAndReduces ==
    (Returns /\ C16_Short) =>
        /\ Outcome.ok
        /\ Outcome.value.representation = PowerBasis
        /\ Outcome.value.coefficients =
              [i \in 1..Len(given.ctx.q) |->
                  [j \in 1..given.ctx.degree |->
                      IF j <= Len(given.v)
                      THEN given.v[j] % given.ctx.q[i]
                      ELSE 0]]

(***************************************************************************)
(* C17.  An unsigned sequence of length L is accepted exactly when a       *)
(* representation is supplied and either L is (number of moduli) * degree  *)
(* or the representation is PowerBasis and L <= degree; a single unsigned  *)
(* value and a signed slice are accepted only for PowerBasis (the signed   *)
(* slice with L <= degree); every rejection is a returned error value.     *)
(***************************************************************************)
C17_VecAccepted ==
    /\ given.representation # None
    /\ \/ Len(given.v) = Len(given.ctx.q) * given.ctx.degree
       \/ /\ given.representation = Some(PowerBasis)
          /\ Len(given.v) <= given.ctx.degree

C17_Accepted ==
    CASE given.kind = "vec" -> C17_VecAccepted
      [] given.kind = "unsigned" -> given.representation = Some(PowerBasis)
      [] given.kind = "i64" ->
            /\ given.representation = Some(PowerBasis)
            /\ Len(given.v) <= given.ctx.degree

C17_AcceptedLengths ==
    (Returns /\ given.kind \in {"vec", "unsigned", "i64"}) =>
        /\ Outcome.ok <=> C17_Accepted
        /\ ~Outcome.ok => IsError(Outcome)

\* A slice of degree + 1 values into PowerBasis is turned down, and so is a
\* slice of degree values into Ntt over two moduli.
C17_Witness ==
    /\ Returns
    /\ given.kind = "vec"
    /\ ~Outcome.ok
    /\ \/ /\ given.representation = Some(PowerBasis)
          /\ Len(given.v) = given.ctx.degree + 1
          /\ Len(given.ctx.q) = 1
       \/ /\ given.representation = Some(Ntt)
          /\ Len(given.v) = given.ctx.degree
          /\ Len(given.ctx.q) = 2

(***************************************************************************)
(* C18.  A polynomial p, in any representation and with its variable-time  *)
(* flag set or not, written to a wire record and read back with the        *)
(* context of p and no representation asserted, is returned equal to p.    *)
(***************************************************************************)
C18_RoundTrip ==
    /\ given.kind = "proto"
    /\ given.of # None
    /\ given.ctx = Unwrap(given.of).ctx
    /\ given.representation = None

C18_WireRoundTrip ==
    (Returns /\ C18_RoundTrip) => Outcome = Ok(Unwrap(given.of))

(***************************************************************************)
(* C19.  Reading a wire record with an asserted representation other than  *)
(* the one of the record fails with the representation-mismatch error,     *)
(* whatever the length or degree of the record; reading a record into a    *)
(* context whose modulus list differs from the list of the context it was  *)
(* written with fails with the coefficients-length error.  No polynomial   *)
(* is returned in either case.                                             *)
(***************************************************************************)
\* The representation the record carries, when it carries one.
C19_Carried ==
    representation_from_proto(enum_value_or_default(given.rq.representation))

C19_MismatchedAssertion ==
    /\ given.kind = "proto"
    /\ C19_Carried.ok
    /\ given.representation # None
    /\ given.representation # Some(C19_Carried.value)

C19_OtherModuli ==
    /\ given.kind = "proto"
    /\ given.of # None
    /\ given.ctx.q # Unwrap(given.of).ctx.q
    /\ ~C19_MismatchedAssertion

C19_MismatchErrors ==
    /\ (Returns /\ C19_MismatchedAssertion) =>
          Outcome = Err("The representation asked for does not match the representation in the serialization")
    /\ (Returns /\ C19_OtherModuli) => Outcome = Err("Invalid coefficients")

(***************************************************************************)
(* C20.  Reading a wire record whose representation field holds a value    *)
(* that is none of the three known tags fails with a decode error and      *)
(* returns no polynomial: the record is never read as if it carried one    *)
(* of the known representations.                                           *)
(***************************************************************************)
C20_UnknownTag ==
    /\ given.kind = "proto"
    /\ given.rq.representation \notin {proto_Representation.POWERBASIS,
                                       proto_Representation.NTT,
                                       proto_Representation.NTTSHOUP}

C20_UnknownTagIsAnError ==
    (Returns /\ C20_UnknownTag) => Outcome = Err("Unknown representation")

\* A record with a tag that is no variant of the enumeration has been read.
C20_Witness ==
    /\ Returns
    /\ C20_UnknownTag
    /\ given.rq.representation # proto_Representation.UNKNOWN
    /\ ~Outcome.ok

(***************************************************************************)
(* C24.  change_representation is total over the nine ordered pairs of     *)
(* representations.  The three pairs with the target equal to the current  *)
(* representation are the only no-ops; no pair is rejected: each of the    *)
(* six others performs a transform, a Shoup update or both and leaves the  *)
(* polynomial in the target representation.                                *)
(***************************************************************************)
C24_Pairs == Representation \X Representation

\* change_representation has just been applied.
C24_Changed == last.op = "change_representation" /\ polys[last.i] # NoPoly

\* The polynomial it was applied to, as a constructor gives it in
\* representation from.
C24_Forms(from) == {random(P(last.i).ctx, from, P(last.i).coefficients)}

\* The pairs on which change_representation aborts, for some polynomial.
C24_Rejected ==
    {pr \in C24_Pairs :
        \E p \in C24_Forms(pr[1]) : change_representation(p, pr[2]).panic}

\* The pairs on which it returns with the polynomial as it was and nothing
\* released, for every polynomial.
C24_NoOps ==
    {pr \in C24_Pairs :
        \A p \in C24_Forms(pr[1]) :
            change_representation(p, pr[2]) = Done(p, NoPoly, "none", {})}

\* The pairs on which it returns with the polynomial in the target
\* representation, a Shoup buffer with it exactly for NttShoup, for every
\* polynomial.
C24_Performed ==
    {pr \in C24_Pairs :
        \A p \in C24_Forms(pr[1]) :
            LET r == change_representation(p, pr[2])
            IN /\ ~r.panic
               /\ r.self # p
               /\ r.self.representation = pr[2]
               /\ (r.self.coefficients_shoup # None) <=> (pr[2] = NttShoup)}

C24_ThreeNoOpsNoneRejected ==
    C24_Changed =>
        /\ C24_NoOps = {pr \in C24_Pairs : pr[1] = pr[2]}
        /\ Cardinality(C24_NoOps) = 3
        /\ C24_Rejected = {}
        /\ C24_Performed = {pr \in C24_Pairs : pr[1] # pr[2]}

\* The statement with two pairs rejected.
C24_ThreeNoOpsTwoRejected ==
    C24_Changed =>
        /\ Cardinality(C24_NoOps) = 3
        /\ Cardinality(C24_Rejected) = 2

\* A polynomial went from NttShoup to Ntt: the call returned, the Shoup
\* buffer was released.
C24_Witness ==
    /\ last.op = "change_representation"
    /\ last.to = Ntt
    /\ ~last.panic
    /\ freed # {}
    /\ polys[last.i] # NoPoly
    /\ P(last.i).representation = Ntt
    /\ P(last.i).coefficients_shoup = None

(***************************************************************************)
(* C25.  The variable-time flag does not spread to data derived from a     *)
(* polynomial whose flag is clear: the polynomial an out-of-place binary   *)
(* operation (&a + &b, &a - &b, &a * &b) returns has its flag set only if  *)
(* the flag is set on both a and b.                                        *)
(***************************************************************************)
C25_Returned ==
    /\ last.op \in BinaryOutOfPlace
    /\ ~last.panic
    /\ res # NoPoly
    /\ polys[last.i] # NoPoly
    /\ polys[last.j] # NoPoly

C25_FlagOnlyFromBoth ==
    C25_Returned =>
        (Unwrap(res).allow_variable_time_computations
           => /\ P(last.i).allow_variable_time_computations
              /\ P(last.j).allow_variable_time_computations)

(***************************************************************************)
(* C26.  Reading a wire record into a context succeeds only if the degree  *)
(* of the record is the degree of the context: a record whose degree is a  *)
(* valid multiple of 8 other than the degree of the context, with the      *)
(* byte length of its own degree, is rejected with an error, for every     *)
(* representation and every number of moduli.                              *)
(***************************************************************************)
C26_OtherDegree ==
    /\ given.kind = "proto"
    /\ given.of # None
    /\ given.rq.degree % 8 = 0
    /\ given.rq.degree >= 8
    /\ given.rq.degree # given.ctx.degree
    /\ given.rq.degree = Unwrap(given.of).ctx.degree

C26_DegreeMustMatch ==
    (Returns /\ C26_OtherDegree) => IsError(Outcome)

(***************************************************************************)
(* C22.  small returns an error, without sampling, iff the variance is     *)
(* outside [1, 16]; for a variance in [1, 16] and each of the three        *)
(* representations it returns a polynomial in the representation asked     *)
(* for, whose residues are the samples reduced modulo each q_i and         *)
(* converted into that representation.                                     *)
(***************************************************************************)
\* The samples reduced modulo each prime, in PowerBasis.
C22_Reduced ==
    [i \in 1..Len(given.ctx.q) |->
        [j \in 1..given.ctx.degree |-> given.drawn[j] % given.ctx.q[i]]]

C22_Residues ==
    IF given.target = PowerBasis
    THEN C22_Reduced
    ELSE forward_rows(C22_Reduced, given.ctx.q)

C22_SmallAcceptsEveryRepresentation ==
    (Returns /\ given.kind = "small") =>
        /\ IsError(Outcome) <=> given.variance \notin 1..16
        /\ given.variance \notin 1..16 => freed = {}
        /\ given.variance \in 1..16 =>
              /\ Outcome.ok
              /\ Outcome.value.representation = given.target
              /\ Outcome.value.coefficients = C22_Residues

(***************************************************************************)
(* C23.  Once small has drawn the samples, the buffer that holds them is   *)
(* zeroed before small returns, whether the conversion into a polynomial   *)
(* went through or returned an error: it is never released with samples    *)
(* in it.                                                                  *)
(***************************************************************************)
C23_SamplesWipedOnEveryPath ==
    (Returns /\ given.kind = "small") =>
        \A b \in freed : b.kind = "coeffs" => IsZero(b.words)

(***************************************************************************)
(* The random constructors: Poly::random draws from the generator of the   *)
(* thread, Poly::random_from_seed from a generator it seeds itself.        *)
(***************************************************************************)
\* The calls a program makes.
MaxCalls == 3

\* The seeds a generator is started from take SeedBits bits.
SeedBits == 6

\* ChaCha8Rng::from_seed(seed) followed by i calls of rng.fill(&mut chunk)
\* on a seed-sized chunk: the i-th chunk of the stream of the seed.
ChaCha8Rng_chunk(seed, i) == (37 * seed + 11 * i + 5) % 2 ^ SeedBits

\* Modulus::random_vec_from_seed: size residues modulo q from the stream of
\* the seed.
random_vec_from_seed(q, size, seed) ==
    [j \in 1..size |-> ((seed + 3) * (2 * j + 1) + j * j) % q]

\* Modulus::random_vec: size residues modulo q drawn from the generator of
\* the thread, in state state when the vector is drawn.
random_vec(q, size, state) ==
    random_vec_from_seed(q, size, (29 * state + 17) % 2 ^ SeedBits)

\* A constructor that seeds each modulus from the generator of the thread.
random_from_seed_thread_rng(ctx, representation, seed) ==
    random(ctx, representation,
           [i \in 1..Len(ctx.q) |->
               random_vec(ctx.q[i], ctx.degree, thread_rng + i)])

\* Poly::random_from_seed
random_from_seed(ctx, representation, seed) ==
    LET p == [zero(ctx, representation) EXCEPT
                !.coefficients =
                   [i \in 1..Len(ctx.q) |->
                       random_vec_from_seed(ctx.q[i], ctx.degree,
                                            ChaCha8Rng_chunk(seed, i))]]
    IN IF p.representation = NttShoup
       THEN compute_coefficients_shoup(p)
       ELSE p

Seeds == {1, 2}

Call(op, ctx, representation, seed, out) ==
    [op |-> op, ctx |-> ctx, representation |-> representation,
     seed |-> seed, out |-> out]

InitSampling ==
    /\ thread_rng = 0
    /\ seeded = <<>>
    /\ PolysIdle
    /\ ContextsIdle
    /\ ConversionsIdle

\* Poly::random(&ctx, representation): each modulus draws its row from the
\* generator of the thread, which moves on.
Random(ctx, representation) ==
    /\ Len(seeded) < MaxCalls
    /\ seeded' =
          Append(seeded,
                 Call("random", ctx, representation, 0,
                      random(ctx, representation,
                             [i \in 1..Len(ctx.q) |->
                                 random_vec(ctx.q[i], ctx.degree,
                                            thread_rng + i)])))
    /\ thread_rng' = thread_rng + Len(ctx.q)
    /\ UNCHANGED <<vars, cvars, tvars>>

\* Poly::random_from_seed(&ctx, representation, seed)
RandomFromSeed(ctx, representation, seed) ==
    /\ Len(seeded) < MaxCalls
    /\ seeded' =
          Append(seeded,
                 Call("random_from_seed", ctx, representation, seed,
                      random_from_seed(ctx, representation, seed)))
    /\ thread_rng' = thread_rng
    /\ UNCHANGED <<vars, cvars, tvars>>

NextSampling ==
    \/ \E ctx \in {CtxFull, CtxShort} : Random(ctx, PowerBasis)
    \/ \E ctx \in {CtxFull, CtxShort}, representation \in Representation,
          seed \in Seeds :
         RandomFromSeed(ctx, representation, seed)

SpecSampling == InitSampling /\ [][NextSampling]_<<vars, cvars, tvars, svars>>

(***************************************************************************)
(* C21.  random_from_seed is a function of its three arguments: two calls  *)
(* with the same context, representation and seed return equal             *)
(* polynomials, whatever was called before or between them.  The row of    *)
(* modulus i is drawn from the i-th chunk of the stream of the seed, so    *)
(* it does not depend on the other moduli of the context.                  *)
(***************************************************************************)
C21_Seeded == {k \in 1..Len(seeded) : seeded[k].op = "random_from_seed"}

====
